---- MODULE Spec2Model ----
(***************************************************************************)
(* Model of the morphism composer (Album, SledStore) and of the frame      *)
(* extraction loop, as a state machine over the album directory, the sled  *)
(* database of each album and the record of the last public call.          *)
(*                                                                         *)
(* Hashes are symbolic: a 32-byte digest is a tagged tuple, so that two    *)
(* digests are equal exactly when they were computed from equal inputs.    *)
(* Tree keys are TreeHeight-bit integers (the real tree has 256 bits).     *)
(***************************************************************************)
EXTENDS Integers, Sequences, FiniteSets, TLC

\* ------------------------------------------------------------------ bounds
\* Height of the sparse Merkle tree of the model (256 in xmt).
TreeHeight == 2
\* Frames stored by the longest media file of the model.
MaxLen == 2
\* Largest decoder delay and number of packets drawn for dump_frames inputs.
MaxDelay == 2
MaxPackets == 3

RECURSIVE Pow2(_)
Pow2(n) == IF n = 0 THEN 1 ELSE 2 * Pow2(n - 1)

NumKeys == Pow2(TreeHeight)
Keys == 0 .. NumKeys - 1
Heights == 0 .. TreeHeight - 1
\* Frame positions a caller may ask for: the stored ones and one past them.
Positions == 0 .. MaxLen

\* ------------------------------------------------------------- primitives
\* H256::zero() and Option::None for hashes.
ZeroH == <<"zero">>
NoHash == <<"none">>

\* u64::to_be_bytes: the eight bytes of a position, most significant first.
RECURSIVE BytesOf(_, _)
BytesOf(n, len) == IF len = 0 THEN <<>> ELSE Append(BytesOf(n \div 256, len - 1), n % 256)

to_be_bytes(p) == BytesOf(p, 8)

\* Album::digest of a frame plane: blake2b-256 of the bytes, kept symbolic.
digest(c) == <<"blake2b", c>>

\* Album::digest of a byte string used as a tree key: the leading TreeHeight
\* bits of the blake2b digest, modelled as a polynomial hash of the bytes that
\* is injective on the encodings of the positions of the model.
RECURSIVE PolyHash(_)
PolyHash(bytes) ==
    IF bytes = <<>> THEN 0
    ELSE (3 * PolyHash(SubSeq(bytes, 1, Len(bytes) - 1)) + bytes[Len(bytes)]) % NumKeys

digestKey(bytes) == (5 * PolyHash(bytes) + 3) % NumKeys

\* sha256::digest of an album name / of a media file's bytes.
sha256(x) == <<"sha256", x>>

\* ------------------------------------------------- xmt: H256 and MergeValue
\* H256::get_bit / is_right
Bit(k, h) == (k \div Pow2(h)) % 2
\* H256::set_bit
SetBit(k, h) == IF Bit(k, h) = 1 THEN k ELSE k + Pow2(h)
\* H256::parent_path(height): the key with bits 0..height cleared
ParentPath(k, h) == (k \div Pow2(h + 1)) * Pow2(h + 1)
\* the key of the node at level h above key k: bits 0..h-1 cleared
NodeKey(k, h) == (k \div Pow2(h)) * Pow2(h)

MVValue(v) == [tag |-> "Value", value |-> v]
MVZeros(b, z, c) == [tag |-> "MergeWithZero", base_node |-> b, zero_bits |-> z, zero_count |-> c]
MVZero == MVValue(ZeroH)

\* MergeValue::is_zero
IsZeroMV(mv) == mv.tag = "Value" /\ mv.value = ZeroH

\* MergeValue::hash
HashMV(mv) ==
    IF mv.tag = "Value" THEN mv.value
    ELSE <<"merge_zeros", mv.base_node, mv.zero_bits, mv.zero_count>>

\* merge_with_zero
MergeWithZero(height, node_key, mv, set_bit) ==
    IF mv.tag = "Value"
    THEN MVZeros(<<"base", height, node_key, mv.value>>,
                 IF set_bit THEN Pow2(height) ELSE 0, 1)
    ELSE MVZeros(mv.base_node,
                 IF set_bit THEN SetBit(mv.zero_bits, height) ELSE mv.zero_bits,
                 (mv.zero_count + 1) % 256)

\* merge
Merge(height, node_key, lhs, rhs) ==
    IF IsZeroMV(lhs) /\ IsZeroMV(rhs) THEN MVZero
    ELSE IF IsZeroMV(lhs) THEN MergeWithZero(height, node_key, rhs, TRUE)
    ELSE IF IsZeroMV(rhs) THEN MergeWithZero(height, node_key, lhs, FALSE)
    ELSE MVValue(<<"merge_normal", height, node_key, HashMV(lhs), HashMV(rhs)>>)

\* ------------------------------------------------------ store.rs: SledStore
\* A sled tree is a set of <<key, value>> pairs with at most one pair per key.
TreeGet(t, k) == {p[2] : p \in {q \in t : q[1] = k}}
TreeInsert(t, k, v) == {q \in t : q[1] # k} \cup {<<k, v>>}
TreeRemove(t, k) == {q \in t : q[1] # k}

\* Store keys are byte strings.  <[u8; 32]>::from(H256): the bytes of a tree
\* key, one byte in the model's key space.
H256Bytes(k) == <<k>>
\* the ASCII bytes of b"root", b"leaf" and b"bran"
RootKey == <<114, 111, 111, 116>>
LeafTag == <<108, 101, 97, 102>>
BranTag == <<98, 114, 97, 110>>
\* bincode::serialize(&(b"leaf", key)): a tuple of two fixed-size byte arrays
\* is their bytes, one after the other, with no length prefix
leaf_key(k) == LeafTag \o H256Bytes(k)
\* branch_key with the height left out of the serialized tuple
branch_key_no_height(h, nk) == BranTag \o H256Bytes(nk)
\* bincode::serialize(&(b"bran", height, node_key)): the height is one byte
branch_key(h, nk) == BranTag \o <<h>> \o H256Bytes(nk)

\* From<&MergeValue> for SerializableMergeValue followed by bincode: the
\* variant index, then the fields.
SerializeMV(mv) ==
    IF mv.tag = "Value" THEN <<0, mv.value>>
    ELSE <<1, mv.base_node, mv.zero_bits, mv.zero_count>>

\* bincode::deserialize followed by Into<MergeValue>
DeserializeMV(b) ==
    IF b[1] = 0 THEN MVValue(b[2]) ELSE MVZeros(b[2], b[3], b[4])

serialize_branch(node) == <<SerializeMV(node.left), SerializeMV(node.right)>>
\* deserialize_branch giving the two sides in the other order
deserialize_branch_swapped(b) == [left |-> DeserializeMV(b[2]), right |-> DeserializeMV(b[1])]
deserialize_branch(b) == [left |-> DeserializeMV(b[1]), right |-> DeserializeMV(b[2])]

\* serialize_val / deserialize_val: the 32 bytes of the digest
serialize_val(v) == <<"h256", v>>
deserialize_val(b) == b[2]

\* SledStore::read_root: the set holding the root, empty when none is saved
read_root(t) == {deserialize_val(b) : b \in TreeGet(t, RootKey)}
\* SledStore::save_root
save_root(t, root) == TreeInsert(t, RootKey, serialize_val(root))
\* SledStore::clear
clear(t) == {}

get_branch(t, h, nk) == {deserialize_branch(b) : b \in TreeGet(t, branch_key(h, nk))}
get_leaf(t, k) == {deserialize_val(b) : b \in TreeGet(t, leaf_key(k))}
insert_branch(t, h, nk, node) == TreeInsert(t, branch_key(h, nk), serialize_branch(node))
insert_leaf(t, k, v) == TreeInsert(t, leaf_key(k), serialize_val(v))
remove_branch(t, h, nk) == TreeRemove(t, branch_key(h, nk))
remove_leaf(t, k) == TreeRemove(t, leaf_key(k))

\* the leaf and branch records of a sled tree
LeafRecords(t) == {q \in t : SubSeq(q[1], 1, 4) = LeafTag}
BranchRecords(t) == {q \in t : SubSeq(q[1], 1, 4) = BranTag}

\* ------------------------------------------- xmt: SparseMerkleTree over a store
\* One store write of a tree operation.  st = [t, n, ok, root]: the sled tree,
\* the number of store writes that still succeed (-1: all of them), whether
\* every write so far succeeded, and the tree's root field.  A write attempted
\* with n = 0 is the one that fails: the store is left as it was and the
\* operation returns the store's error.
StoreWrite(st, t2) ==
    IF ~st.ok THEN st
    ELSE IF st.n = 0 THEN [st EXCEPT !.ok = FALSE]
    ELSE [st EXCEPT !.t = t2, !.n = IF st.n < 0 THEN st.n ELSE st.n - 1]

\* leaves sorted by key (update_all sorts and dedups its input; proofs sort
\* their keys)
RECURSIVE SortedKeys(_)
SortedKeys(ks) ==
    IF ks = {} THEN <<>>
    ELSE LET m == CHOOSE k \in ks : \A j \in ks : k <= j
         IN <<m>> \o SortedKeys(ks \ {m})

\* update_all, first loop: insert every non-zero leaf, remove every zero one.
\* kv is a function from keys to values, order a sequence of its keys.
RECURSIVE WriteLeaves(_, _, _)
WriteLeaves(order, kv, st) ==
    IF order = <<>> THEN st
    ELSE LET k == Head(order)
             st2 == StoreWrite(st, IF kv[k] # ZeroH THEN insert_leaf(st.t, k, kv[k])
                                   ELSE remove_leaf(st.t, k))
         IN WriteLeaves(Tail(order), kv, st2)

\* update_all, second loop: the queue of (key, merge value, height) nodes is
\* merged level by level; a node's sibling is its neighbour in the queue when
\* there is one and otherwise the sibling the stored parent branch records.
RECURSIVE UpdateLoop(_, _)
UpdateLoop(nodes, st) ==
    IF nodes = <<>> \/ ~st.ok THEN st
    ELSE
      LET cur == Head(nodes)
          rest == Tail(nodes)
          pkey == ParentPath(cur.key, cur.height)
          hasNb == /\ Bit(cur.key, cur.height) = 0
                   /\ rest # <<>>
                   /\ Head(rest).key # cur.key
                   /\ Head(rest).key = SetBit(cur.key, cur.height)
                   /\ Head(rest).height = cur.height
          rest2 == IF hasNb THEN Tail(rest) ELSE rest
          stored == get_branch(st.t, cur.height, pkey)
          left == IF hasNb THEN cur.mv
                  ELSE IF Bit(cur.key, cur.height) = 1
                       THEN (IF stored = {} THEN MVZero ELSE (CHOOSE b \in stored : TRUE).left)
                       ELSE cur.mv
          right == IF hasNb THEN Head(rest).mv
                   ELSE IF Bit(cur.key, cur.height) = 1 THEN cur.mv
                   ELSE (IF stored = {} THEN MVZero ELSE (CHOOSE b \in stored : TRUE).right)
          merged == Merge(cur.height, pkey, left, right)
          st2 == StoreWrite(st,
                    IF ~IsZeroMV(left) \/ ~IsZeroMV(right)
                    THEN insert_branch(st.t, cur.height, pkey, [left |-> left, right |-> right])
                    ELSE remove_branch(st.t, cur.height, pkey))
      IN IF ~st2.ok THEN st2
         ELSE IF cur.height = TreeHeight - 1 THEN [st2 EXCEPT !.root = HashMV(merged)]
         ELSE UpdateLoop(Append(rest2, [key |-> pkey, mv |-> merged, height |-> cur.height + 1]), st2)

\* SparseMerkleTree::update_all(leaves) on the tree MerkleTree::new(root, t) whose
\* store fails at write number n (counted from 0; -1: never).
update_all(t, root, kv, n) ==
    LET order == SortedKeys(DOMAIN kv)
        st1 == WriteLeaves(order, kv, [t |-> t, n |-> n, ok |-> TRUE, root |-> root])
        nodes == [i \in 1 .. Len(order) |->
                    [key |-> order[i], mv |-> MVValue(kv[order[i]]), height |-> 0]]
    IN UpdateLoop(nodes, st1)

\* SparseMerkleTree::merkle_proof(keys).compile(keys), for a non-empty set of
\* keys: for every key and height, the sibling recorded by the stored parent
\* branch, when it is non-zero and no requested key lies below it.
SiblingKey(k, h) == IF Bit(k, h) = 1 THEN NodeKey(k, h) - Pow2(h) ELSE NodeKey(k, h) + Pow2(h)

merkle_proof(t, keys) ==
    [keys |-> keys,
     siblings |->
        {e \in UNION {
            {<<h, SiblingKey(k, h),
               IF Bit(k, h) = 1 THEN b.left ELSE b.right>> : b \in get_branch(t, h, ParentPath(k, h))}
            : k \in keys, h \in Heights} :
           /\ ~IsZeroMV(e[3])
           /\ \A k2 \in keys : NodeKey(k2, e[1]) # e[2]}]

NoProof == [keys |-> {}, siblings |-> {}]

\* CompiledMerkleProof::compute_root(leaves): the node at level h with key nk,
\* rebuilt from the leaves of the requested keys and the proof's siblings.
RECURSIVE ProofNode(_, _, _, _)
ProofNode(proof, kv, h, nk) ==
    IF \A k \in proof.keys : NodeKey(k, h) # nk
    THEN LET s == {e \in proof.siblings : e[1] = h /\ e[2] = nk}
         IN IF s = {} THEN MVZero ELSE (CHOOSE e \in s : TRUE)[3]
    ELSE IF h = 0 THEN MVValue(kv[nk])
    ELSE Merge(h - 1, nk, ProofNode(proof, kv, h - 1, nk),
                          ProofNode(proof, kv, h - 1, nk + Pow2(h - 1)))

compute_root(proof, kv) == HashMV(ProofNode(proof, kv, TreeHeight, 0))

\* CompiledMerkleProof::verify(root, leaves)
verify(proof, root, kv) == DOMAIN kv = proof.keys /\ proof.keys # {} /\ compute_root(proof, kv) = root

\* ------------------------------------------------------ tac.rs: dump_frames
\* A media file: whether ffmpeg can open it, whether it has a video stream,
\* whether a decoder for it exists, its packets in file order and the number
\* of frames its decoder holds back before it emits the oldest one.  A packet
\* is "v" (a video packet carrying one frame), "a" (a packet of another
\* stream) or "x" (a video packet the decoder rejects).
PacketKinds == {"v", "a", "x"}

\* the planes of the j-th frame of a video stream (j counted from 1)
FramePlanes(j) == <<j, 100 + j>>

\* decoder.receive_frame in a loop: emit the oldest held frame while the
\* decoder holds more than `delay` frames
RECURSIVE ReceiveFrames(_, _, _)
ReceiveFrames(buf, delay, frames) ==
    IF Len(buf) <= delay THEN [buf |-> buf, frames |-> frames]
    ELSE ReceiveFrames(Tail(buf), delay, Append(frames, digest(Head(buf)[1])))

\* the packet loop of dump_frames; sent counts the video frames sent so far
RECURSIVE PacketLoop(_, _, _, _, _)
PacketLoop(packets, sent, buf, delay, frames) ==
    IF packets = <<>> THEN [ok |-> TRUE, frames |-> frames]
    ELSE IF Head(packets) = "a" THEN PacketLoop(Tail(packets), sent, buf, delay, frames)
    ELSE IF Head(packets) = "x" THEN [ok |-> FALSE, frames |-> frames]
    ELSE LET r == ReceiveFrames(Append(buf, FramePlanes(sent + 1)), delay, frames)
         IN PacketLoop(Tail(packets), sent + 1, r.buf, delay, r.frames)

\* dump_frames without the final frames.is_empty() check
dump_frames_unchecked(f) ==
    LET loop == PacketLoop(f.packets, 0, <<>>, f.delay, <<>>)
        frames == IF f.openable /\ f.codec THEN loop.frames ELSE <<>>
    IN IF f.openable /\ ~f.video THEN [ok |-> FALSE, frames |-> <<>>]
       ELSE IF f.openable /\ f.codec /\ ~loop.ok THEN [ok |-> FALSE, frames |-> <<>>]
       ELSE [ok |-> TRUE, frames |-> frames]

\* Album::dump_frames(file, digest)
dump_frames(f) ==
    LET loop == PacketLoop(f.packets, 0, <<>>, f.delay, <<>>)
        frames == IF f.openable /\ f.codec THEN loop.frames ELSE <<>>
    IN IF f.openable /\ ~f.video THEN [ok |-> FALSE, frames |-> <<>>]
       ELSE IF f.openable /\ f.codec /\ ~loop.ok THEN [ok |-> FALSE, frames |-> <<>>]
       ELSE IF frames = <<>> THEN [ok |-> FALSE, frames |-> <<>>]
       ELSE [ok |-> TRUE, frames |-> frames]

\* the media files of the model: m1 holds MaxLen frames and an audio packet,
\* m2 the same frames and one more behind a decoder that holds one frame back,
\* m0 is a file ffmpeg cannot open (no frame can be extracted from it).
AllFiles == {"m0", "m1", "m2"}

File(m) ==
    IF m = "m1"
    THEN [openable |-> TRUE, video |-> TRUE, codec |-> TRUE, delay |-> 0,
          packets |-> [i \in 1 .. MaxLen + 1 |-> IF i = 2 THEN "a" ELSE "v"]]
    ELSE IF m = "m2"
    THEN [openable |-> TRUE, video |-> TRUE, codec |-> TRUE, delay |-> 1,
          packets |-> [i \in 1 .. MaxLen + 1 |-> "v"]]
    ELSE [openable |-> FALSE, video |-> FALSE, codec |-> FALSE, delay |-> 0,
          packets |-> <<>>]

Ids == {sha256(m) : m \in AllFiles}
NoId == <<"none">>

\* ------------------------------------------------------------ tac.rs: Album
\* A sled Db: the names of its trees and the records of each.
EmptyDb == [names |-> {}, kv |-> [id \in Ids |-> {}]]

\* SledStore::open: sled's open_tree opens the tree of that name and creates
\* it when the Db has none.
open(d, id) == [d EXCEPT !.names = d.names \cup {id}]

\* the store faults a call can meet, by the step that meets it
AppendFaults == {"none", "init", "file", "open", "read_root", "clear", "dump", "update", "save_root"}
ReadFaults == {"none", "open", "read_root", "bad_root", "get"}

\* the tree key of the frame at index i, as save_frames computes it
LeafKeyOfIndex(i) == digestKey(to_be_bytes(i))
\* the tree key of frame position f, as get_proof_of_frames computes it
\* the key of a requested position taken from the bytes of f in
\* little-endian order
ProofKeyLittleEndian(f) == digestKey([i \in 1 .. 8 |-> BytesOf(f, 8)[9 - i]])

ProofKeyOfFrame(f) == digestKey(to_be_bytes(f))

\* new_empty_tree without the MediaExists arm: an existing root is cleared
\* whatever the flag says
new_empty_tree_unguarded(d, id, force, fault) ==
    IF fault = "open" THEN [res |-> "Store", d |-> d]
    ELSE LET d1 == open(d, id)
             t == d1.kv[id]
         IN IF fault = "read_root" THEN [res |-> "Store", d |-> d1]
            ELSE IF read_root(t) = {} THEN [res |-> "Ok", d |-> d1]
            ELSE IF fault = "clear" THEN [res |-> "Store", d |-> d1]
            ELSE [res |-> "Ok", d |-> [d1 EXCEPT !.kv[id] = clear(t)]]

\* new_empty_tree clearing every sub-namespace of the album's Db when it
\* overwrites, not only the one of id
new_empty_tree_clear_db(d, id, force, fault) ==
    IF fault = "open" THEN [res |-> "Store", d |-> d]
    ELSE LET d1 == open(d, id)
             t == d1.kv[id]
         IN IF fault = "read_root" THEN [res |-> "Store", d |-> d1]
            ELSE IF read_root(t) = {} THEN [res |-> "Ok", d |-> d1]
            ELSE IF ~force THEN [res |-> "MediaExists", d |-> d1]
            ELSE IF fault = "clear" THEN [res |-> "Store", d |-> d1]
            ELSE [res |-> "Ok", d |-> [d1 EXCEPT !.kv = [i \in Ids |-> clear(d1.kv[i])]]]

\* Album::new_empty_tree(id, force)
new_empty_tree(d, id, force, fault) ==
    IF fault = "open" THEN [res |-> "Store", d |-> d]
    ELSE LET d1 == open(d, id)
             t == d1.kv[id]
         IN IF fault = "read_root" THEN [res |-> "Store", d |-> d1]
            ELSE IF read_root(t) = {} THEN [res |-> "Ok", d |-> d1]
            ELSE IF force
                 THEN IF fault = "clear" THEN [res |-> "Store", d |-> d1]
                      ELSE [res |-> "Ok", d |-> [d1 EXCEPT !.kv[id] = clear(t)]]
                 ELSE [res |-> "MediaExists", d |-> d1]

\* the leaves save_frames hands to update_all: key of the index -> digest;
\* of two indices with one key update_all keeps the later
LeavesOf(frames) ==
    LET keyOf == [i \in 0 .. Len(frames) - 1 |-> LeafKeyOfIndex(i)]
        latest(k) == CHOOSE i \in DOMAIN keyOf :
                        /\ keyOf[i] = k
                        /\ \A j \in DOMAIN keyOf : keyOf[j] = k => j <= i
    IN [k \in {keyOf[i] : i \in DOMAIN keyOf} |-> frames[1 + latest(k)]]

\* save_frames numbering the frames from the count of leaf records the store
\* already holds instead of from 0
save_frames_after_existing(t, frames, fault, n) ==
    LET base == Cardinality(LeafRecords(t))
        keyOf == [i \in 0 .. Len(frames) - 1 |-> LeafKeyOfIndex(base + i)]
        kv == [k \in {keyOf[i] : i \in DOMAIN keyOf} |->
                  frames[1 + CHOOSE i \in DOMAIN keyOf : keyOf[i] = k]]
        st == update_all(t, ZeroH, kv, IF fault = "update" THEN n ELSE -1)
    IN IF ~st.ok
       THEN [res |-> "MerkleTree", t |-> st.t, root |-> NoHash, batch |-> FALSE, save |-> FALSE]
       ELSE IF fault = "save_root"
       THEN [res |-> "Store", t |-> st.t, root |-> NoHash, batch |-> TRUE, save |-> TRUE]
       ELSE [res |-> "Ok", t |-> save_root(st.t, st.root), root |-> st.root,
             batch |-> TRUE, save |-> TRUE]

\* Album::save_frames(frames, smt) on the tree MerkleTree::new(zero, t); the
\* store fails at write number n of update_all under fault "update"
save_frames(t, frames, fault, n) ==
    LET st == update_all(t, ZeroH, LeavesOf(frames), IF fault = "update" THEN n ELSE -1)
    IN IF ~st.ok
       THEN [res |-> "MerkleTree", t |-> st.t, root |-> NoHash, batch |-> FALSE, save |-> FALSE]
       ELSE IF fault = "save_root"
       THEN [res |-> "Store", t |-> st.t, root |-> NoHash, batch |-> TRUE, save |-> TRUE]
       ELSE [res |-> "Ok", t |-> save_root(st.t, st.root), root |-> st.root,
             batch |-> TRUE, save |-> TRUE]

\* Album::append(media, overwrite) on the sled Db d
append(d, m, overwrite, fault, n) ==
    LET id == sha256(m)
        none == [res |-> "Media", d |-> d, root |-> NoHash, upd |-> FALSE,
                 batch |-> FALSE, save |-> FALSE]
        tree == new_empty_tree(d, id, overwrite, fault)
        frames == dump_frames(File(m))
        saved == save_frames(tree.d.kv[id], frames.frames, fault, n)
    IN IF fault = "init" THEN none
       ELSE IF fault = "file" THEN [none EXCEPT !.res = "File"]
       ELSE IF tree.res # "Ok" THEN [none EXCEPT !.res = tree.res, !.d = tree.d]
       ELSE IF fault = "dump" \/ ~frames.ok THEN [none EXCEPT !.d = tree.d]
       ELSE [res |-> saved.res, d |-> [tree.d EXCEPT !.kv[id] = saved.t], root |-> saved.root,
             upd |-> TRUE, batch |-> saved.batch, save |-> saved.save]

\* get_proof_of_frames with read_root()?.unwrap_or_default() in place of
\* ok_or(ResourceNotFound)
get_proof_of_frames_default_root(d, id, frames, fault) ==
    LET d1 == open(d, id)
        t == d1.kv[id]
        keys == {ProofKeyOfFrame(f) : f \in frames}
    IN IF fault = "open" THEN [res |-> "Store", d |-> d, proof |-> NoProof]
       ELSE IF fault = "read_root" THEN [res |-> "Store", d |-> d1, proof |-> NoProof]
       ELSE IF keys = {} \/ fault = "get" THEN [res |-> "MerkleTree", d |-> d1, proof |-> NoProof]
       ELSE [res |-> "Ok", d |-> d1, proof |-> merkle_proof(t, keys)]

\* Album::get_proof_of_frames(id, frames) for a duplicate-free list of
\* positions (the proof sorts its keys, so their order does not matter)
get_proof_of_frames(d, id, frames, fault) ==
    LET d1 == open(d, id)
        t == d1.kv[id]
        keys == {ProofKeyOfFrame(f) : f \in frames}
    IN IF fault = "open" THEN [res |-> "Store", d |-> d, proof |-> NoProof]
       ELSE IF fault = "read_root" THEN [res |-> "Store", d |-> d1, proof |-> NoProof]
       ELSE IF read_root(t) = {} THEN [res |-> "ResourceNotFound", d |-> d1, proof |-> NoProof]
       ELSE IF fault = "bad_root" THEN [res |-> "panic", d |-> d1, proof |-> NoProof]
       ELSE IF keys = {} \/ fault = "get" THEN [res |-> "MerkleTree", d |-> d1, proof |-> NoProof]
       ELSE [res |-> "Ok", d |-> d1, proof |-> merkle_proof(t, keys)]

\* Album::find_episode(id)
find_episode(d, id, fault) ==
    LET d1 == open(d, id)
        root == read_root(d1.kv[id])
    IN IF fault = "open" THEN [res |-> "None", d |-> d, root |-> NoHash]
       ELSE IF fault = "read_root" \/ root = {} THEN [res |-> "None", d |-> d1, root |-> NoHash]
       ELSE IF fault = "bad_root" THEN [res |-> "panic", d |-> d1, root |-> NoHash]
       ELSE [res |-> "Some", d |-> d1, root |-> CHOOSE r \in root : TRUE]

\* the albums of the model and their directories home.join(sha256(name))
AlbumNames == {"demo"}
PathOf(name) == sha256(name)
Paths == {PathOf(a) : a \in AlbumNames}
NewFaults == {"none", "create_dir", "sled_open"}

\* Album::new without the path.exists() check (create_dir_all semantics)
new_create_dir_all(existing, name, fault) ==
    IF fault = "create_dir" THEN [res |-> "File", dirs |-> existing]
    ELSE IF fault = "sled_open" THEN [res |-> "Store", dirs |-> existing \cup {PathOf(name)}]
    ELSE [res |-> "Ok", dirs |-> existing \cup {PathOf(name)}]

\* Album::new(home, name) on the set of existing directories
new(existing, name, fault) ==
    IF PathOf(name) \in existing THEN [res |-> "AlbumExists", dirs |-> existing]
    ELSE IF fault = "create_dir" THEN [res |-> "File", dirs |-> existing]
    ELSE IF fault = "sled_open" THEN [res |-> "Store", dirs |-> existing \cup {PathOf(name)}]
    ELSE [res |-> "Ok", dirs |-> existing \cup {PathOf(name)}]

\* Album::find(home, name)
find(existing, name) ==
    IF PathOf(name) \in existing THEN "Ok" ELSE "AlbumNotFound"

\* the largest number of store writes one update_all makes
MaxWrites == MaxLen * (TreeHeight + 1)

\* ------------------------------------------------------------------- state
\* dirs: the album directories that exist under home
\* db:   the sled Db of each album directory
\* last: the last public call, its arguments and what it returned
\* prev: the identity and root of the append before it, when that call was an
\*       append that succeeded
\* dump: the input and the result of a dump_frames run on its own
VARIABLES dirs, db, last, prev, dump, prover, adapter, procs
vars == <<dirs, db, last, prev, dump, prover, adapter, procs>>

NoCall ==
    [op |-> "none", album |-> "", id |-> NoId, pos |-> {}, ow |-> FALSE, fault |-> "none",
     res |-> "", root |-> NoHash, proof |-> NoProof, upd |-> FALSE, batch |-> FALSE,
     save |-> FALSE]

NoAppend == [id |-> NoId, root |-> NoHash]

NoDump == [file |-> File("m0"), done |-> FALSE, ok |-> FALSE, frames |-> <<>>]

\* no prove_from_witness call, no store adapter under test, no concurrent call
NoProver == [hash |-> <<>>, done |-> FALSE, frame_indices |-> <<>>]
NoAdapter == <<>>
NoProcs == <<>>

\* what the call recorded in `last` leaves in prev
Appended == IF last.op = "append" /\ last.res = "Ok"
            THEN [id |-> last.id, root |-> last.root] ELSE NoAppend

Init ==
    /\ dirs = {}
    /\ db = [p \in Paths |-> EmptyDb]
    /\ last = NoCall
    /\ prev = NoAppend
    /\ dump = NoDump
    /\ prover = NoProver
    /\ adapter = NoAdapter
    /\ procs = NoProcs

AlbumNew(a, fault) ==
    \E r \in {new(dirs, a, fault)} :
       /\ fault # "none" => r.res # "AlbumExists"
       /\ dirs' = r.dirs
       /\ last' = [NoCall EXCEPT !.op = "new", !.album = a, !.fault = fault, !.res = r.res]
       /\ prev' = Appended
       /\ UNCHANGED <<db, dump, prover, adapter, procs>>

AlbumFind(a) ==
    /\ last' = [NoCall EXCEPT !.op = "find", !.album = a, !.res = find(dirs, a)]
    /\ prev' = Appended
    /\ UNCHANGED <<dirs, db, dump, prover, adapter, procs>>

\* a fault is drawn only for a step the call reaches
AlbumAppend(a, m, overwrite, fault, n) ==
    /\ PathOf(a) \in dirs
    /\ \E r \in {append(db[PathOf(a)], m, overwrite, fault, n)} :
       /\ fault = "clear" => r.res = "Store"
       /\ fault = "dump" => r.res = "Media" /\ dump_frames(File(m)).ok
       /\ fault = "update" => r.res = "MerkleTree"
       /\ fault = "save_root" => r.res = "Store"
       /\ db' = [db EXCEPT ![PathOf(a)] = r.d]
       /\ last' = [NoCall EXCEPT !.op = "append", !.album = a, !.id = sha256(m),
                                 !.ow = overwrite, !.fault = fault, !.res = r.res,
                                 !.root = r.root, !.upd = r.upd, !.batch = r.batch,
                                 !.save = r.save]
       /\ prev' = Appended
       /\ UNCHANGED <<dirs, dump, prover, adapter, procs>>

AlbumGetProofOfFrames(a, id, frames, fault) ==
    /\ PathOf(a) \in dirs
    /\ \E r \in {get_proof_of_frames(db[PathOf(a)], id, frames, fault)} :
       /\ fault = "get" => r.res = "MerkleTree" /\ frames # {}
       /\ fault = "bad_root" => r.res = "panic"
       /\ db' = [db EXCEPT ![PathOf(a)] = r.d]
       /\ last' = [NoCall EXCEPT !.op = "get_proof_of_frames", !.album = a, !.id = id,
                                 !.pos = frames, !.fault = fault, !.res = r.res,
                                 !.proof = r.proof]
       /\ prev' = Appended
       /\ UNCHANGED <<dirs, dump, prover, adapter, procs>>

AlbumFindEpisode(a, id, fault) ==
    /\ PathOf(a) \in dirs
    /\ \E r \in {find_episode(db[PathOf(a)], id, fault)} :
       /\ fault = "bad_root" => r.res = "panic"
       /\ db' = [db EXCEPT ![PathOf(a)] = r.d]
       /\ last' = [NoCall EXCEPT !.op = "find_episode", !.album = a, !.id = id,
                                 !.fault = fault, !.res = r.res, !.root = r.root]
       /\ prev' = Appended
       /\ UNCHANGED <<dirs, dump, prover, adapter, procs>>

\* One album and the files m0 and m1: every fault of append and of
\* Album::new, no fault of the two read calls.
MediaFiles == {"m0", "m1"}

Next ==
    \/ \E a \in AlbumNames, fault \in NewFaults : AlbumNew(a, fault)
    \/ \E a \in AlbumNames : AlbumFind(a)
    \/ \E a \in AlbumNames, m \in MediaFiles, overwrite \in BOOLEAN, fault \in AppendFaults :
          \E n \in (IF fault = "update" THEN 0 .. MaxWrites - 1 ELSE {0}) :
             AlbumAppend(a, m, overwrite, fault, n)
    \/ \E a \in AlbumNames, m \in MediaFiles, frames \in SUBSET Positions :
          AlbumGetProofOfFrames(a, sha256(m), frames, "none")
    \/ \E a \in AlbumNames, m \in MediaFiles : AlbumFindEpisode(a, sha256(m), "none")

Spec == Init /\ [][Next]_vars

\* The files m1 and m2, which store the same digests, with no fault: appends
\* and proofs of every set of positions.
ProofFiles == {"m1", "m2"}

NextProof ==
    \/ \E a \in AlbumNames : AlbumNew(a, "none")
    \/ \E a \in AlbumNames, m \in ProofFiles, overwrite \in BOOLEAN :
          AlbumAppend(a, m, overwrite, "none", 0)
    \/ \E a \in AlbumNames, m \in ProofFiles, frames \in SUBSET Positions :
          AlbumGetProofOfFrames(a, sha256(m), frames, "none")

SpecProof == Init /\ [][NextProof]_vars

\* The files m0 and m1 with the store faults of every call: an I/O failure of
\* open_tree, of a get, of clear or of an insert, and a root record that is
\* not 32 bytes long.
StoreFaults == {"open", "read_root", "clear", "update", "save_root"}

NextFault ==
    \/ \E a \in AlbumNames : AlbumNew(a, "none")
    \/ \E a \in AlbumNames, m \in MediaFiles, overwrite \in BOOLEAN,
          fault \in {"none"} \cup StoreFaults :
          \E n \in (IF fault = "update" THEN 0 .. MaxWrites - 1 ELSE {0}) :
             AlbumAppend(a, m, overwrite, fault, n)
    \/ \E a \in AlbumNames, m \in MediaFiles, frames \in SUBSET Positions, fault \in ReadFaults :
          AlbumGetProofOfFrames(a, sha256(m), frames, fault)
    \/ \E a \in AlbumNames, m \in MediaFiles, fault \in ReadFaults :
          AlbumFindEpisode(a, sha256(m), fault)

SpecFault == Init /\ [][NextFault]_vars

\* The files m1 and m2 in one album, with no fault: appends with either flag,
\* proofs and find_episode on either item.
NextIso ==
    \/ \E a \in AlbumNames : AlbumNew(a, "none")
    \/ \E a \in AlbumNames, m \in ProofFiles, overwrite \in BOOLEAN :
          AlbumAppend(a, m, overwrite, "none", 0)
    \/ \E a \in AlbumNames, m \in ProofFiles, frames \in SUBSET Positions :
          AlbumGetProofOfFrames(a, sha256(m), frames, "none")
    \/ \E a \in AlbumNames, m \in ProofFiles : AlbumFindEpisode(a, sha256(m), "none")

SpecIso == Init /\ [][NextIso]_vars

\* dump_frames on its own, for every media file of at most MaxPackets packets
\* and every decoder delay up to MaxDelay.
RECURSIVE SeqsUpTo(_, _)
SeqsUpTo(S, n) ==
    IF n = 0 THEN {<<>>}
    ELSE SeqsUpTo(S, n - 1) \cup {Append(q, x) : q \in {p \in SeqsUpTo(S, n - 1) : Len(p) = n - 1}, x \in S}

DumpInputs ==
    [openable : BOOLEAN, video : BOOLEAN, codec : BOOLEAN, delay : 0 .. MaxDelay,
     packets : SeqsUpTo(PacketKinds, MaxPackets)]

InitDump ==
    /\ dirs = {}
    /\ db = [p \in Paths |-> EmptyDb]
    /\ last = NoCall
    /\ prev = NoAppend
    /\ dump \in {[file |-> f, done |-> FALSE, ok |-> FALSE, frames |-> <<>>] : f \in DumpInputs}
    /\ prover = NoProver
    /\ adapter = NoAdapter
    /\ procs = NoProcs

DumpFrames ==
    /\ ~dump.done
    /\ \E r \in {dump_frames(dump.file)} :
          dump' = [dump EXCEPT !.done = TRUE, !.ok = r.ok, !.frames = r.frames]
    /\ UNCHANGED <<dirs, db, last, prev, prover, adapter, procs>>

NextDump == DumpFrames

SpecDump == InitDump /\ [][NextDump]_vars

\* ------------------------------------------------ prover: prove_from_witness
MAX_FRAMES == 1200

\* u32::from_be_bytes(b) % m for the four bytes b.  The value of the word is
\* b[1] * 2^24 + b[2] * 2^16 + b[3] * 2^8 + b[4]; its remainder is computed by
\* long division from the most significant byte on, which keeps every
\* intermediate value below 256 * m.
RemU32(b, m) == ((((((b[1] % m) * 256 + b[2]) % m) * 256 + b[3]) % m) * 256 + b[4]) % m

\* prove_from_witness with the words of the hash read as little-endian
prove_from_witness_le(hash) ==
    [frame_indices |->
        [i \in 1 .. 3 |-> RemU32([j \in 1 .. 4 |-> hash[4 * (i - 1) + 5 - j]], MAX_FRAMES)],
     hash |-> hash]

\* prove_from_witness(seed, sk) from the VRF output hash of vrf::prove(seed, sk)
\* on: the three challenge positions and the hash
prove_from_witness(hash) ==
    [frame_indices |->
        <<RemU32(SubSeq(hash, 1, 4), MAX_FRAMES),
          RemU32(SubSeq(hash, 5, 8), MAX_FRAMES),
          RemU32(SubSeq(hash, 9, 12), MAX_FRAMES)>>,
     hash |-> hash]

\* VRF output hashes: 32 bytes.  One word takes every value over ByteVals, the
\* other two words a value of FillWords, bytes 12..32 one value of TailBytes.
ByteVals == {0, 4, 176, 255}
Words == {w \in SeqsUpTo(ByteVals, 4) : Len(w) = 4}
FillWords == {<<0, 0, 4, 176>>, <<255, 255, 255, 255>>}
TailBytes == {0, 255}
HashInputs ==
    {[i \in 1 .. 32 |->
        IF i > 12 THEN t
        ELSE IF (i - 1) \div 4 = slot THEN w[((i - 1) % 4) + 1] ELSE f[((i - 1) % 4) + 1]]
     : w \in Words, slot \in 0 .. 2, f \in FillWords, t \in TailBytes}

InitProver ==
    /\ dirs = {}
    /\ db = [p \in Paths |-> EmptyDb]
    /\ last = NoCall
    /\ prev = NoAppend
    /\ dump = NoDump
    /\ prover \in {[NoProver EXCEPT !.hash = h] : h \in HashInputs}
    /\ adapter = NoAdapter
    /\ procs = NoProcs

ProveFromWitness ==
    /\ ~prover.done
    /\ \E r \in {prove_from_witness(prover.hash)} :
          prover' = [hash |-> r.hash, done |-> TRUE, frame_indices |-> r.frame_indices]
    /\ UNCHANGED <<dirs, db, last, prev, dump, adapter, procs>>

NextProver == ProveFromWitness

SpecProver == InitProver /\ [][NextProver]_vars

\* ------------------------------------------------ the store adapter on its own
\* One SledStore and the operations of its StoreReadOps / StoreWriteOps, of
\* save_root and of clear, in any order.  adapter.t is the sled tree;
\* adapter.branch, adapter.leaf and adapter.root record, per key, what the
\* latest insert or save not followed by a remove or clear wrote ({} when
\* there is none); adapter.op is the latest operation and adapter.key the store
\* key it addressed.
AdapterBranchKeys == {<<0, 0>>, <<1, 0>>}
AdapterLeafKeys == {0, 1}
AdapterMVs == {MVValue(digest(0)), MVZeros(digest(0), 1, 1), MVZeros(digest(1), 0, 2)}
AdapterNodes == [left : AdapterMVs, right : AdapterMVs]
AdapterValues == {digest(0), digest(1)}
AdapterRoots == {ZeroH, digest(0)}

InitStore ==
    /\ dirs = {}
    /\ db = [p \in Paths |-> EmptyDb]
    /\ last = NoCall
    /\ prev = NoAppend
    /\ dump = NoDump
    /\ prover = NoProver
    /\ adapter = [t |-> {}, branch |-> [bk \in AdapterBranchKeys |-> {}],
                  leaf |-> [k \in AdapterLeafKeys |-> {}], root |-> {},
                  op |-> "open", key |-> <<>>]
    /\ procs = NoProcs

StoreInsertBranch(bk, node) ==
    /\ adapter # NoAdapter
    /\ adapter' = [adapter EXCEPT !.t = insert_branch(@, bk[1], bk[2], node),
                                  !.branch[bk] = {node},
                                  !.op = "insert_branch", !.key = branch_key(bk[1], bk[2])]
    /\ UNCHANGED <<dirs, db, last, prev, dump, prover, procs>>

StoreRemoveBranch(bk) ==
    /\ adapter # NoAdapter
    /\ adapter' = [adapter EXCEPT !.t = remove_branch(@, bk[1], bk[2]),
                                  !.branch[bk] = {},
                                  !.op = "remove_branch", !.key = branch_key(bk[1], bk[2])]
    /\ UNCHANGED <<dirs, db, last, prev, dump, prover, procs>>

StoreInsertLeaf(k, v) ==
    /\ adapter # NoAdapter
    /\ adapter' = [adapter EXCEPT !.t = insert_leaf(@, k, v), !.leaf[k] = {v},
                                  !.op = "insert_leaf", !.key = leaf_key(k)]
    /\ UNCHANGED <<dirs, db, last, prev, dump, prover, procs>>

StoreRemoveLeaf(k) ==
    /\ adapter # NoAdapter
    /\ adapter' = [adapter EXCEPT !.t = remove_leaf(@, k), !.leaf[k] = {},
                                  !.op = "remove_leaf", !.key = leaf_key(k)]
    /\ UNCHANGED <<dirs, db, last, prev, dump, prover, procs>>

StoreSaveRoot(root) ==
    /\ adapter # NoAdapter
    /\ adapter' = [adapter EXCEPT !.t = save_root(@, root), !.root = {root},
                                  !.op = "save_root", !.key = RootKey]
    /\ UNCHANGED <<dirs, db, last, prev, dump, prover, procs>>

StoreClear ==
    /\ adapter # NoAdapter
    /\ adapter' = [adapter EXCEPT !.t = clear(@),
                                  !.branch = [bk \in AdapterBranchKeys |-> {}],
                                  !.leaf = [k \in AdapterLeafKeys |-> {}], !.root = {},
                                  !.op = "clear", !.key = <<>>]
    /\ UNCHANGED <<dirs, db, last, prev, dump, prover, procs>>

NextStore ==
    \/ \E bk \in AdapterBranchKeys, node \in AdapterNodes : StoreInsertBranch(bk, node)
    \/ \E bk \in AdapterBranchKeys : StoreRemoveBranch(bk)
    \/ \E k \in AdapterLeafKeys, v \in AdapterValues : StoreInsertLeaf(k, v)
    \/ \E k \in AdapterLeafKeys : StoreRemoveLeaf(k)
    \/ \E root \in AdapterRoots : StoreSaveRoot(root)
    \/ StoreClear

SpecStore == InitStore /\ [][NextStore]_vars

\* ------------------------------------------------ concurrent calls on one album
\* Two calls run at once on the album "demo" and the media file ConcFile, each
\* store operation of a call being one step.  procs[p] is the state of call p:
\* its kind and arguments, its position pc, the root its read_root returned
\* (seen), update_all's leaves still to write (order), its node queue (nodes),
\* the branch it is about to write (pend), the root it computed, its result,
\* and for a proof the store it was computed from (snap).
Procs == {1, 2}
ConcFile == "m1"
ConcId == sha256(ConcFile)
ConcAlbum == "demo"
ConcLeaves == LeavesOf(dump_frames(File(ConcFile)).frames)
ConcPositions == {{0}, 0 .. MaxLen - 1}

NoPend == [height |-> 0, key |-> 0, left |-> MVZero, right |-> MVZero, rest |-> <<>>]

Call(kind, ow, pos) ==
    [kind |-> kind, ow |-> ow, pos |-> pos, pc |-> "start", seen |-> {}, order |-> <<>>,
     nodes |-> <<>>, pend |-> NoPend, root |-> NoHash, res |-> "", proof |-> NoProof,
     snap |-> {}]

Calls ==
    {Call("append", ow, {}) : ow \in BOOLEAN}
    \cup {Call("proof", FALSE, pos) : pos \in ConcPositions}
    \cup {Call("find", FALSE, {})}

\* the sub-namespace of ConcId and the album Db with that sub-namespace set
ConcTree == db[PathOf(ConcAlbum)].kv[ConcId]
ConcStore(t) == [db EXCEPT ![PathOf(ConcAlbum)] = [open(@, ConcId) EXCEPT !.kv[ConcId] = t]]

\* the album after one sequential append of ConcFile
Appended1 == append(EmptyDb, ConcFile, FALSE, "none", 0)

InitConc ==
    /\ dirs = {PathOf(ConcAlbum)}
    /\ db \in {[p \in Paths |-> EmptyDb], [p \in Paths |-> Appended1.d]}
    /\ last = NoCall
    /\ prev = NoAppend
    /\ dump = NoDump
    /\ prover = NoProver
    /\ adapter = NoAdapter
    /\ procs \in [Procs -> Calls]

\* new_empty_tree clearing the sub-namespace as soon as it finds a root,
\* before it looks at the overwrite flag
AppendGuard_clear_first(p) ==
    /\ procs[p].kind = "append" /\ procs[p].pc = "start"
    /\ LET seen == read_root(ConcTree)
       IN /\ procs' = [procs EXCEPT ![p] =
               IF seen # {} /\ ~@.ow THEN [@ EXCEPT !.pc = "done", !.seen = seen, !.res = "MediaExists"]
               ELSE [@ EXCEPT !.pc = "leaves", !.seen = seen,
                              !.order = SortedKeys(DOMAIN ConcLeaves)]]
          /\ db' = ConcStore(IF seen # {} THEN clear(ConcTree) ELSE ConcTree)
    /\ UNCHANGED <<dirs, last, prev, dump, prover, adapter>>

\* append: SledStore::open and read_root of new_empty_tree, and its match
AppendGuard(p) ==
    /\ procs[p].kind = "append" /\ procs[p].pc = "start"
    /\ LET seen == read_root(ConcTree)
       IN procs' = [procs EXCEPT ![p] =
            IF seen # {} /\ ~@.ow THEN [@ EXCEPT !.pc = "done", !.seen = seen, !.res = "MediaExists"]
            ELSE IF seen # {} THEN [@ EXCEPT !.pc = "clear", !.seen = seen]
            ELSE [@ EXCEPT !.pc = "leaves", !.order = SortedKeys(DOMAIN ConcLeaves)]]
    /\ db' = ConcStore(ConcTree)
    /\ UNCHANGED <<dirs, last, prev, dump, prover, adapter>>

\* append: store.clear() of new_empty_tree; dump_frames follows and touches
\* no store
AppendClear(p) ==
    /\ procs[p].kind = "append" /\ procs[p].pc = "clear"
    /\ db' = ConcStore(clear(ConcTree))
    /\ procs' = [procs EXCEPT ![p] = [@ EXCEPT !.pc = "leaves",
                                               !.order = SortedKeys(DOMAIN ConcLeaves)]]
    /\ UNCHANGED <<dirs, last, prev, dump, prover, adapter>>

\* append: one insert_leaf / remove_leaf of update_all's first loop
AppendWriteLeaf(p) ==
    /\ procs[p].kind = "append" /\ procs[p].pc = "leaves"
    /\ LET k == Head(procs[p].order)
           order == Tail(procs[p].order)
           keys == SortedKeys(DOMAIN ConcLeaves)
       IN /\ db' = ConcStore(IF ConcLeaves[k] # ZeroH THEN insert_leaf(ConcTree, k, ConcLeaves[k])
                             ELSE remove_leaf(ConcTree, k))
          /\ procs' = [procs EXCEPT ![p] =
                IF order # <<>> THEN [@ EXCEPT !.order = order]
                ELSE [@ EXCEPT !.order = order, !.pc = "read",
                               !.nodes = [i \in 1 .. Len(keys) |->
                                            [key |-> keys[i], mv |-> MVValue(ConcLeaves[keys[i]]),
                                             height |-> 0]]]]
    /\ UNCHANGED <<dirs, last, prev, dump, prover, adapter>>

\* update_all, second loop, up to the store write: the node at the head of the
\* queue, its sibling (the neighbour in the queue, or the one the stored parent
\* branch in t records) and the rest of the queue
NodeRead(nodes, t) ==
    LET cur == Head(nodes)
        rest == Tail(nodes)
        pkey == ParentPath(cur.key, cur.height)
        hasNb == /\ Bit(cur.key, cur.height) = 0
                 /\ rest # <<>>
                 /\ Head(rest).key # cur.key
                 /\ Head(rest).key = SetBit(cur.key, cur.height)
                 /\ Head(rest).height = cur.height
        stored == get_branch(t, cur.height, pkey)
    IN [height |-> cur.height, key |-> pkey,
        left |-> IF hasNb THEN cur.mv
                 ELSE IF Bit(cur.key, cur.height) = 1
                      THEN (IF stored = {} THEN MVZero ELSE (CHOOSE b \in stored : TRUE).left)
                      ELSE cur.mv,
        right |-> IF hasNb THEN Head(rest).mv
                  ELSE IF Bit(cur.key, cur.height) = 1 THEN cur.mv
                  ELSE (IF stored = {} THEN MVZero ELSE (CHOOSE b \in stored : TRUE).right),
        rest |-> IF hasNb THEN Tail(rest) ELSE rest]

\* append: the get_branch of one iteration of update_all's second loop
AppendReadNode(p) ==
    /\ procs[p].kind = "append" /\ procs[p].pc = "read"
    /\ procs' = [procs EXCEPT ![p] = [@ EXCEPT !.pc = "write",
                                               !.pend = NodeRead(procs[p].nodes, ConcTree)]]
    /\ UNCHANGED <<dirs, db, last, prev, dump, prover, adapter>>

\* append: the insert_branch / remove_branch of that iteration
AppendWriteNode(p) ==
    /\ procs[p].kind = "append" /\ procs[p].pc = "write"
    /\ LET n == procs[p].pend
           merged == Merge(n.height, n.key, n.left, n.right)
       IN /\ db' = ConcStore(IF ~IsZeroMV(n.left) \/ ~IsZeroMV(n.right)
                             THEN insert_branch(ConcTree, n.height, n.key,
                                                [left |-> n.left, right |-> n.right])
                             ELSE remove_branch(ConcTree, n.height, n.key))
          /\ procs' = [procs EXCEPT ![p] =
                IF n.height = TreeHeight - 1
                THEN [@ EXCEPT !.pc = "save", !.nodes = <<>>, !.pend = NoPend,
                               !.root = HashMV(merged)]
                ELSE [@ EXCEPT !.pc = "read", !.pend = NoPend,
                               !.nodes = Append(n.rest, [key |-> n.key, mv |-> merged,
                                                         height |-> n.height + 1])]]
    /\ UNCHANGED <<dirs, last, prev, dump, prover, adapter>>

\* save_root made conditional on the root still being absent: a call with
\* overwrite = false that finds a root saved meanwhile fails with MediaExists
AppendSaveRoot_checked(p) ==
    /\ procs[p].kind = "append" /\ procs[p].pc = "save"
    /\ IF read_root(ConcTree) # {} /\ ~procs[p].ow
       THEN /\ db' = db
            /\ procs' = [procs EXCEPT ![p] = [@ EXCEPT !.pc = "done", !.res = "MediaExists"]]
       ELSE /\ db' = ConcStore(save_root(ConcTree, procs[p].root))
            /\ procs' = [procs EXCEPT ![p] = [@ EXCEPT !.pc = "done", !.res = "Ok"]]
    /\ UNCHANGED <<dirs, last, prev, dump, prover, adapter>>

\* append: save_root of save_frames
AppendSaveRoot(p) ==
    /\ procs[p].kind = "append" /\ procs[p].pc = "save"
    /\ db' = ConcStore(save_root(ConcTree, procs[p].root))
    /\ procs' = [procs EXCEPT ![p] = [@ EXCEPT !.pc = "done", !.res = "Ok"]]
    /\ UNCHANGED <<dirs, last, prev, dump, prover, adapter>>

\* the first step of get_proof_of_frames made a write: it clears the
\* sub-namespace after reading the root
ProofReadRoot_clearing(p) ==
    /\ procs[p].kind = "proof" /\ procs[p].pc = "start"
    /\ LET seen == read_root(ConcTree)
       IN procs' = [procs EXCEPT ![p] =
            IF seen = {} THEN [@ EXCEPT !.pc = "done", !.res = "ResourceNotFound"]
            ELSE [@ EXCEPT !.pc = "proof", !.seen = seen]]
    /\ db' = ConcStore(clear(ConcTree))
    /\ UNCHANGED <<dirs, last, prev, dump, prover, adapter>>

\* get_proof_of_frames: SledStore::open and read_root
ProofReadRoot(p) ==
    /\ procs[p].kind = "proof" /\ procs[p].pc = "start"
    /\ LET seen == read_root(ConcTree)
       IN procs' = [procs EXCEPT ![p] =
            IF seen = {} THEN [@ EXCEPT !.pc = "done", !.res = "ResourceNotFound"]
            ELSE [@ EXCEPT !.pc = "proof", !.seen = seen]]
    /\ db' = ConcStore(ConcTree)
    /\ UNCHANGED <<dirs, last, prev, dump, prover, adapter>>

\* get_proof_of_frames: merkle_proof(keys) and compile(keys), reading the store
ProofReadTree(p) ==
    /\ procs[p].kind = "proof" /\ procs[p].pc = "proof"
    /\ procs' = [procs EXCEPT ![p] =
          [@ EXCEPT !.pc = "done", !.res = "Ok", !.snap = ConcTree,
                    !.proof = merkle_proof(ConcTree, {ProofKeyOfFrame(f) : f \in procs[p].pos})]]
    /\ UNCHANGED <<dirs, db, last, prev, dump, prover, adapter>>

\* find_episode
FindEpisode(p) ==
    /\ procs[p].kind = "find" /\ procs[p].pc = "start"
    /\ \E r \in {find_episode(db[PathOf(ConcAlbum)], ConcId, "none")} :
       /\ db' = [db EXCEPT ![PathOf(ConcAlbum)] = r.d]
       /\ procs' = [procs EXCEPT ![p] = [@ EXCEPT !.pc = "done", !.res = r.res,
                                                  !.seen = read_root(ConcTree)]]
    /\ UNCHANGED <<dirs, last, prev, dump, prover, adapter>>

NextConc ==
    \E p \in Procs :
        \/ AppendGuard(p)
        \/ AppendClear(p)
        \/ AppendWriteLeaf(p)
        \/ AppendReadNode(p)
        \/ AppendWriteNode(p)
        \/ AppendSaveRoot(p)
        \/ ProofReadRoot(p)
        \/ ProofReadTree(p)
        \/ FindEpisode(p)

SpecConc == InitConc /\ [][NextConc]_vars

\* ------------------------------------------------------------------ claims
\* the persisted root of a media item: the set holding it, empty when absent
RootOf(a, id) == read_root(db[PathOf(a)].kv[id])

\* C1 (append guard): when an append succeeded with root R and the next call
\* is an append of the same media identity with overwrite = false that meets
\* no store, file or codec fault, that call fails with MediaExists, the
\* persisted root is still R and no record of the album has changed.
C1_AppendGuard ==
    [][(/\ last.op = "append" /\ last.res = "Ok"
        /\ last'.op = "append" /\ last'.album = last.album /\ last'.id = last.id
        /\ ~last'.ow /\ last'.fault = "none")
       => (/\ last'.res = "MediaExists"
           /\ db' = db
           /\ read_root(db'[PathOf(last.album)].kv[last.id]) = {last.root})]_vars

C1_Witness ==
    /\ last.op = "append" /\ ~last.ow /\ last.res = "MediaExists"
    /\ prev.id = last.id
    /\ RootOf(last.album, last.id) = {prev.root}

\* C2 (absence correctness): a get_proof_of_frames call on a media identity
\* that has no persisted root, for any set of positions, returns
\* ResourceNotFound and no proof bytes (the store itself answering the call).
C2_AbsenceCorrectness ==
    [][(/\ last'.op = "get_proof_of_frames"
        /\ read_root(db[PathOf(last'.album)].kv[last'.id]) = {})
       => (last'.res = "ResourceNotFound" /\ last'.proof = NoProof)]_vars

C2_Witness ==
    /\ last.op = "get_proof_of_frames" /\ last.pos # {}
    /\ last.res = "ResourceNotFound"
    /\ RootOf(last.album, last.id) = {}

\* C3 (idempotent read), as claimed: find_episode and get_proof_of_frames leave
\* the persisted state of the album (the set of media sub-namespaces and every
\* record in them) as it was, and two consecutive get_proof_of_frames calls
\* with the same identity and positions return the same result.
C3_IdempotentRead ==
    [][/\ last'.op \in {"find_episode", "get_proof_of_frames"} => db' = db /\ dirs' = dirs
       /\ (/\ last.op = "get_proof_of_frames" /\ last'.op = "get_proof_of_frames"
           /\ last'.album = last.album /\ last'.id = last.id /\ last'.pos = last.pos)
          => (last'.res = last.res /\ last'.proof = last.proof)]_vars

\* the digests append stores for a media identity, in position order
StoredFrames(id) == dump_frames(File(id[2])).frames

\* the pairs (key(p), digest_p) a verifier holds for the positions S
PairsOf(frames, S) ==
    [k \in {LeafKeyOfIndex(p) : p \in S} |->
        frames[1 + CHOOSE p \in S : LeafKeyOfIndex(p) = k]]

\* values a tampered digest may take
OtherDigests == {digest(c) : c \in 0 .. MaxPackets + 1} \cup {ZeroH}

\* the proof of the last call verifies against root with the digests of S, and
\* fails to verify once any one digest of S is replaced
ProofSound(root, frames, S) ==
    /\ last.res = "Ok"
    /\ verify(last.proof, root, PairsOf(frames, S))
    /\ \A p \in S : \A x \in OtherDigests \ {frames[1 + p]} :
          ~verify(last.proof, root, [PairsOf(frames, S) EXCEPT ![LeafKeyOfIndex(p)] = x])

C5_AppendDeterminism ==
    (last.op = "append" /\ last.ow /\ last.res = "Ok")
    => (/\ last.root = save_frames({}, StoredFrames(last.id), "none", 0).root
        /\ RootOf(last.album, last.id) = {last.root})

C5_Witness ==
    /\ last.op = "append" /\ last.ow /\ last.res = "Ok"
    /\ prev.id = last.id /\ prev.root = last.root

\* C6 (album creation is once-only): Album::new on a name whose namespace
\* exists fails with AlbumExists and changes neither the directories nor any
\* record of the album; it succeeds only when the namespace did not exist and
\* then creates it; no operation removes a namespace, so after a successful
\* create every later create of that name fails with AlbumExists.
C6_CreateOnce ==
    [][/\ (last'.op = "new" /\ PathOf(last'.album) \in dirs)
          => (last'.res = "AlbumExists" /\ dirs' = dirs /\ db' = db)
       /\ (last'.op = "new" /\ last'.res = "Ok")
          => (PathOf(last'.album) \notin dirs /\ PathOf(last'.album) \in dirs')
       /\ dirs \subseteq dirs']_vars

C6_Witness ==
    /\ last.op = "new" /\ last.res = "AlbumExists"
    /\ \E id \in Ids : RootOf(last.album, id) # {}

\* C7 (root changes only by full-batch update), as claimed: whenever the
\* persisted root of a media item is created, replaced or removed, the step is
\* an append of that item in which the batch update of the complete leaf set
\* completed and its root was saved.
C7_RootOnlyByBatch ==
    [][\A a \in AlbumNames : \A id \in Ids :
          read_root(db'[PathOf(a)].kv[id]) # read_root(db[PathOf(a)].kv[id])
          => (/\ last'.op = "append" /\ last'.album = a /\ last'.id = id
              /\ last'.batch /\ last'.save /\ last'.res = "Ok")]_vars

\* C8 (no root means empty tree), as claimed: in every reachable state a media
\* sub-namespace without a persisted root holds no leaf and no branch record.
C8_NoRootEmptyTree ==
    \A a \in AlbumNames : \A id \in Ids :
        RootOf(a, id) = {}
        => (/\ LeafRecords(db[PathOf(a)].kv[id]) = {}
            /\ BranchRecords(db[PathOf(a)].kv[id]) = {})

\* the number of video packets (one frame each) of a packet sequence
VideoFrames(packets) == Cardinality({i \in DOMAIN packets : packets[i] = "v"})

\* C9 (frame extraction is complete and ordered), as claimed: for a file whose
\* video stream decodes to n >= 1 frames, behind a decoder that may hold
\* frames back until later packets or end of stream, dump_frames returns n
\* digests, the i-th being the digest of the first plane of frame i.
C9_CompleteOrdered ==
    (/\ dump.done
     /\ dump.file.openable /\ dump.file.video /\ dump.file.codec
     /\ \A i \in DOMAIN dump.file.packets : dump.file.packets[i] # "x"
     /\ VideoFrames(dump.file.packets) >= 1)
    => (/\ dump.ok
        /\ dump.frames = [i \in 1 .. VideoFrames(dump.file.packets) |-> digest(FramePlanes(i)[1])])

\* C10 (zero-frame append fails): an append that reaches frame extraction for
\* a file from which no frame is extracted returns a Media error, performs no
\* batch update and does not execute save_root.
C10_ZeroFrameAppend ==
    (/\ last.op = "append"
     /\ last.fault = "none" /\ last.res # "MediaExists"
     /\ StoredFrames(last.id) = <<>>)
    => (last.res = "Media" /\ ~last.upd /\ ~last.batch /\ ~last.save)

C10_Witness ==
    /\ last.op = "append" /\ last.fault = "none"
    /\ StoredFrames(last.id) = <<>>
    /\ last.res = "Media"
    /\ RootOf(last.album, last.id) = {}

\* the errors of the structural kind: ComposerError::Store and
\* ComposerError::MerkleTree (which wraps the tree's store and decode errors)
StructuralErrors == {"Store", "MerkleTree"}

\* C11 (structural store errors are never silently ignored), as claimed: a
\* find_episode, get_proof_of_frames or append call that meets a store I/O
\* failure or a malformed record returns an error of the structural kind; it
\* returns no normal result and does not panic.
C11_StructuralErrorsSurface ==
    (/\ last.op \in {"find_episode", "get_proof_of_frames", "append"}
     /\ last.fault \in StoreFaults \cup (ReadFaults \ {"none"}))
    => last.res \in StructuralErrors

\* the value of a big-endian 32-bit word modulo MAX_FRAMES, from the value of
\* its low 31 bits and of its top bit (2^31 = 1789569 * 1200 + 848)
WordMod(b) ==
    LET low == (b[1] % 128) * 16777216 + b[2] * 65536 + b[3] * 256 + b[4]
    IN IF b[1] < 128 THEN low % MAX_FRAMES ELSE ((low % MAX_FRAMES) + 848) % MAX_FRAMES

\* C12 (challenge derivation and range): prove_from_witness returns exactly
\* three positions, the i-th being the big-endian 32-bit word h[4i .. 4i+4)
\* modulo 1200, in that order; each lies in [0, 1200); bytes 12..32 of h do
\* not affect them; equal positions are kept.
C12_ChallengeDerivation ==
    prover.done
    => (/\ Len(prover.frame_indices) = 3
        /\ \A i \in 0 .. 2 :
              /\ prover.frame_indices[i + 1] = WordMod(SubSeq(prover.hash, 4 * i + 1, 4 * i + 4))
              /\ prover.frame_indices[i + 1] \in 0 .. MAX_FRAMES - 1
        /\ prover.frame_indices =
              prove_from_witness([i \in 1 .. 32 |-> IF i > 12 THEN 0 ELSE prover.hash[i]]).frame_indices)

C12_Witness ==
    /\ prover.done
    /\ prover.hash[1] = 255 /\ prover.hash[32] = 255
    /\ prover.frame_indices[2] = prover.frame_indices[3]
    /\ prover.frame_indices[1] # prover.frame_indices[2]

\* the sub-namespace a complete sequential append of ConcFile leaves, and its root
CompleteTree == Appended1.d.kv[ConcId]
ConcRoot == Appended1.root

\* C13 (torn read under concurrency): when only get_proof_of_frames and
\* find_episode calls run concurrently, the records stay those of the start
\* and every call returns what the same call returns when run alone on that
\* store; a proof is computed from a store other than the complete tree of
\* the root it read only when an append with overwrite = true runs beside it.
\* That such a torn read does happen is C13_Witness.
C13_ConcurrentReads ==
    /\ (\A p \in Procs : procs[p].kind \in {"proof", "find"})
       => /\ ConcTree \in {{}, CompleteTree}
          /\ \A p \in Procs :
                procs[p].pc = "done"
                => IF procs[p].kind = "find"
                   THEN procs[p].res = find_episode(db[PathOf(ConcAlbum)], ConcId, "none").res
                   ELSE /\ procs[p].res =
                             get_proof_of_frames(db[PathOf(ConcAlbum)], ConcId,
                                                 procs[p].pos, "none").res
                        /\ procs[p].proof =
                             get_proof_of_frames(db[PathOf(ConcAlbum)], ConcId,
                                                 procs[p].pos, "none").proof
    /\ \A p \in Procs :
          (procs[p].kind = "proof" /\ procs[p].res = "Ok" /\ procs[p].snap # CompleteTree)
          => \E q \in Procs \ {p} : procs[q].kind = "append" /\ procs[q].ow

C13_Witness ==
    \E p \in Procs, q \in Procs :
        /\ procs[q].kind = "append" /\ procs[q].ow
        /\ procs[p].kind = "proof" /\ procs[p].pc = "done" /\ procs[p].res = "Ok"
        /\ procs[p].seen = {ConcRoot}
        /\ CompleteTree \ procs[p].snap # {}
        /\ ~verify(procs[p].proof, ConcRoot, PairsOf(StoredFrames(ConcId), procs[p].pos))

\* C14 (append guard is not atomic): whether an append(overwrite = false)
\* fails with MediaExists is decided by its own read_root alone: it fails
\* exactly when that read found a root, and a call whose read found none
\* writes its batch and returns success whatever the other call has written
\* or saved meanwhile.  That two such calls on a not-yet-appended item both
\* return success is C14_Witness.
C14_GuardNotAtomic ==
    \A p \in Procs :
        (procs[p].kind = "append" /\ ~procs[p].ow /\ procs[p].pc # "start")
        => /\ procs[p].res = "MediaExists" <=> procs[p].seen # {}
           /\ procs[p].pc = "done" /\ procs[p].seen = {} => procs[p].res = "Ok"

C14_Witness ==
    /\ \A p \in Procs :
          /\ procs[p].kind = "append" /\ ~procs[p].ow
          /\ procs[p].pc = "done" /\ procs[p].res = "Ok" /\ procs[p].seen = {}
    /\ read_root(ConcTree) = {ConcRoot}

\* C18 (concurrent appends converge): when two concurrent appends of the same
\* media item, with any overwrite flags and from an empty or an already
\* appended sub-namespace, have both returned, the sub-namespace holds the root
\* and exactly the leaf records of that media, the state one sequential append
\* leaves.
C18_AppendsConverge ==
    (\A p \in Procs : procs[p].kind = "append" /\ procs[p].pc = "done")
    => /\ read_root(ConcTree) = {ConcRoot}
       /\ LeafRecords(ConcTree) = {<<leaf_key(k), serialize_val(ConcLeaves[k])>> : k \in DOMAIN ConcLeaves}
       /\ ConcTree = CompleteTree

C18_Witness ==
    /\ \A p \in Procs :
          /\ procs[p].kind = "append" /\ procs[p].ow
          /\ procs[p].pc = "done" /\ procs[p].res = "Ok" /\ procs[p].seen = {ConcRoot}
    /\ ConcTree = CompleteTree

\* the store keys of the three kinds of record
AllLeafKeys == {leaf_key(k) : k \in Keys}
AllBranchKeys == {branch_key(h, nk) : h \in Heights, nk \in Keys}

\* the keys of the three kinds are pairwise different and leaf_key and
\* branch_key are injective
KeysDistinct ==
    /\ RootKey \notin AllLeafKeys \cup AllBranchKeys
    /\ AllLeafKeys \cap AllBranchKeys = {}
    /\ \A k1 \in Keys, k2 \in Keys : leaf_key(k1) = leaf_key(k2) => k1 = k2
    /\ \A h1 \in Heights, h2 \in Heights, n1 \in Keys, n2 \in Keys :
          branch_key(h1, n1) = branch_key(h2, n2) => (h1 = h2 /\ n1 = n2)

\* C15 (record keys never collide across kinds): the root key, the leaf keys
\* and the branch keys are pairwise different across kinds, leaf_key and
\* branch_key are injective, and an insert or remove changes no record but the
\* one under the key of its own kind and argument.
C15_KeysNeverCollide ==
    [][/\ KeysDistinct
       /\ adapter'.op \in {"insert_branch", "remove_branch", "insert_leaf", "remove_leaf", "save_root"}
          => /\ \A q \in adapter.t : q[1] # adapter'.key => q \in adapter'.t
             /\ \A q \in adapter'.t : q[1] # adapter'.key => q \in adapter.t
             /\ adapter'.op \in {"insert_branch", "remove_branch"}
                => /\ read_root(adapter'.t) = read_root(adapter.t)
                   /\ LeafRecords(adapter'.t) = LeafRecords(adapter.t)
                   /\ \A bk \in AdapterBranchKeys :
                         branch_key(bk[1], bk[2]) # adapter'.key
                         => get_branch(adapter'.t, bk[1], bk[2]) = get_branch(adapter.t, bk[1], bk[2])
             /\ adapter'.op \in {"insert_leaf", "remove_leaf"}
                => /\ read_root(adapter'.t) = read_root(adapter.t)
                   /\ BranchRecords(adapter'.t) = BranchRecords(adapter.t)
             /\ adapter'.op = "save_root"
                => /\ LeafRecords(adapter'.t) = LeafRecords(adapter.t)
                   /\ BranchRecords(adapter'.t) = BranchRecords(adapter.t)]_vars

C15_Witness ==
    /\ adapter # NoAdapter
    /\ adapter.op = "remove_branch" /\ adapter.key = branch_key(0, 0)
    /\ read_root(adapter.t) # {}
    /\ get_branch(adapter.t, 1, 0) # {}
    /\ \A k \in AdapterLeafKeys : get_leaf(adapter.t, k) # {}

\* C16 (store adapter read-your-writes): after any sequence of inserts,
\* removes, save_root and clear, get_branch returns the node of the latest
\* insert_branch of that key not followed by a remove or clear (both sides
\* equal, for both MergeValue variants), get_leaf the latest inserted value
\* likewise, read_root the latest saved root (present even when all-zero) and
\* none only when none was saved since the last clear; other keys read as none.
C16_ReadYourWrites ==
    adapter # NoAdapter
    => /\ \A bk \in AdapterBranchKeys : get_branch(adapter.t, bk[1], bk[2]) = adapter.branch[bk]
       /\ \A k \in AdapterLeafKeys : get_leaf(adapter.t, k) = adapter.leaf[k]
       /\ read_root(adapter.t) = adapter.root
       /\ \A h \in Heights, nk \in Keys :
             <<h, nk>> \notin AdapterBranchKeys => get_branch(adapter.t, h, nk) = {}
       /\ \A k \in Keys \ AdapterLeafKeys : get_leaf(adapter.t, k) = {}

C16_Witness ==
    /\ adapter # NoAdapter
    /\ read_root(adapter.t) = {ZeroH}
    /\ get_branch(adapter.t, 0, 0) = {[left |-> MVZeros(digest(1), 0, 2), right |-> MVValue(digest(0))]}
    /\ get_branch(adapter.t, 1, 0) = {}
    /\ get_leaf(adapter.t, 1) = {digest(1)}
    /\ adapter.op = "remove_leaf"

\* C17 (failed overwrite keeps the old tree), as claimed: when
\* append(media, overwrite = true) on an item with persisted root R returns an
\* error from a step after the guard (frame extraction, batch update or
\* save_root), the persisted root is still R afterwards and
\* get_proof_of_frames for the item still succeeds.
C17_FailedOverwriteKeepsTree ==
    [][(/\ last'.op = "append" /\ last'.ow
        /\ last'.fault \in {"dump", "update", "save_root"}
        /\ last'.res # "Ok"
        /\ read_root(db[PathOf(last'.album)].kv[last'.id]) # {})
       => (/\ read_root(db'[PathOf(last'.album)].kv[last'.id])
                = read_root(db[PathOf(last'.album)].kv[last'.id])
           /\ get_proof_of_frames(db'[PathOf(last'.album)], last'.id, {0}, "none").res = "Ok")]_vars

\* C19 (per-media isolation): an append (with either overwrite flag, its clear
\* included), find_episode or get_proof_of_frames on media identity A leaves
\* the root, leaf and branch records of every other identity B of the album,
\* and whether B's sub-namespace exists, unchanged.
C19_PerMediaIsolation ==
    [][last'.op \in {"append", "find_episode", "get_proof_of_frames"}
       => \A B \in Ids \ {last'.id} :
             /\ db'[PathOf(last'.album)].kv[B] = db[PathOf(last'.album)].kv[B]
             /\ B \in db'[PathOf(last'.album)].names <=> B \in db[PathOf(last'.album)].names]_vars

C19_Witness ==
    /\ last.op = "append" /\ last.ow /\ last.res = "Ok"
    /\ prev.id = last.id
    /\ \E B \in Ids \ {last.id} :
          /\ RootOf(last.album, B) # {}
          /\ LeafRecords(db[PathOf(last.album)].kv[B]) # {}
====
